---------------------------- MODULE Spec2Model ----------------------------
(***************************************************************************)
(* Screenshot-to-transcript reconstruction of IcedSoul/echo:               *)
(* backend/app/services/ocr_service.py (WeChatOCRService), the refinement  *)
(* collaborator of backend/app/services/llm_client.py and the route        *)
(* backend/app/api/routes/ocr.py.                                          *)
(*                                                                         *)
(* Representation.  A Python str is a sequence of characters; each         *)
(* character is one TLA+ string.  ASCII characters stand for themselves,   *)
(* a CJK character is written as its pinyin ("ni" is U+4F60), so that      *)
(* len(), strip() and the regular expressions of the source are computed   *)
(* character by character.  Optional[str] is a record [some, val].         *)
(* Coordinates are pixels; the boxes the model draws are axis-aligned      *)
(* rectangles whose corner sums are multiples of 4, so center_x and        *)
(* center_y (sum / 4) are exact integers, and a comparison with a fraction *)
(* of the image size (x < h * 0.05) is computed as 100 * x < 5 * h.        *)
(***************************************************************************)
EXTENDS Integers, Sequences, FiniteSets, TLC

VARIABLES
    images,             \* Spec: the request's batch, in input order
    use_llm_refine,     \* Spec: the caller's flag
    pc,                 \* Spec: position of the request
    i,                  \* Spec: loop index of process_multiple_images_async
    image_results,      \* Spec: List[ImageOCRResult]
    detected_chat_name, \* Spec: Optional[str]
    merged_messages,    \* Spec: the final message sequence of the heuristic path
    llm,                \* Spec: what the refinement collaborator did ("" = not called)
    returned,           \* Spec: (conversation, partner name) the service returned
    response,           \* Spec: what the route answered
    img_in,             \* SpecImage: the image and the name detected before it
    img_out,            \* SpecImage: its ImageOCRResult
    mrg_in,             \* SpecMerge: the argument of _merge_consecutive_messages
    mrg_out,            \* SpecMerge: its result
    mrg_again,          \* SpecMerge: the result merged once more
    box_in,             \* SpecBox: a box and the size of its image
    box_out,            \* SpecBox: what the two tiers make of it
    detections,         \* SpecParse: the TextDetections of one OCR response
    parsed,             \* SpecParse: what _parse_tencent_ocr_result makes of them
    shot,               \* SpecResize: size of the uploaded image and where the engine finds a corner
    resized,            \* SpecResize: what process_image makes of it
    attempts,           \* SpecRetry: what each attempt of the current _call_api call met
    call_result,             \* SpecRetry: how the current call ended, empty while it runs
    history,            \* SpecRetry: the calls that ended before it
    usage_doc,          \* SpecUsage: the stored used count and limit of one user and feature
    requests            \* SpecUsage: where each concurrent request stands and what its check returned

pipeVars == <<images, use_llm_refine, pc, i, image_results, detected_chat_name, merged_messages, llm, returned, response>>
imageVars == <<img_in, img_out>>
mergeVars == <<mrg_in, mrg_out, mrg_again>>
boxVars == <<box_in, box_out>>
parseVars == <<detections, parsed>>
resizeVars == <<shot, resized>>
retryVars == <<attempts, call_result, history>>
usageVars == <<usage_doc, requests>>
vars == <<pipeVars, imageVars, mergeVars, boxVars, parseVars, resizeVars, retryVars, usageVars>>

(***************************************************************************)
(* Bounds of the model.                                                    *)
(***************************************************************************)
MaxImages == 2
MaxBoxes == 3
MaxMsgs == 3
MaxDetections == 3
MaxCalls == 2
MaxRequests == 3
MaxLimit == 2

(***************************************************************************)
(* Characters and strings.                                                 *)
(***************************************************************************)
Digits == {"0", "1", "2", "3", "4", "5", "6", "7", "8", "9"}
Whitespace == {" ", "\n", "\t"}
AsciiLetters == {"G", "g", "C", "c", "H", "h", "D", "d", "M", "m", "U", "u", "T", "t", "V", "v", "o", "L", "l", "E", "e", "a", "b"}
\* the characters of the model in the range U+4E00..U+9FFF
CJK == {"ni", "hao", "zai", "ma", "xiao", "ming", "wo", "dui", "fang", "en",
        "fan", "hui", "fa", "song", "geng", "duo", "qu", "xiao1",
        "yu", "yin", "shi", "pin", "zhuan", "zhang", "hong", "bao", "wei", "zhi",
        "biao", "qing", "xiang", "ce", "pai", "she", "shou", "cang",
        "xi", "tong", "xun", "lu", "xian",
        "liao", "tian1", "peng", "you", "quan", "sao", "yi",
        "zhong", "guo", "dong", "lian", "dian", "xin",
        "yue", "ri", "xing", "qi", "zhou", "er", "san", "si", "wu", "liu",
        "shang", "xia", "wu3", "ling", "chen", "wan", "zuo", "tian", "jin", "gang", "nian",
        "tu", "pian"}

None == [some |-> FALSE, val |-> <<>>]
Some(s) == [some |-> TRUE, val |-> s]
\* Python truthiness of an Optional[str]
Truthy(o) == o.some /\ o.val # <<>>
\* Python's  a or b  on Optional[str]
OrElse(a, b) == IF Truthy(a) THEN a ELSE b

RECURSIVE LStrip(_)
LStrip(s) == IF s # <<>> /\ Head(s) \in Whitespace THEN LStrip(Tail(s)) ELSE s
RECURSIVE RStrip(_)
RStrip(s) == IF s # <<>> /\ s[Len(s)] \in Whitespace THEN RStrip(SubSeq(s, 1, Len(s) - 1)) ELSE s
\* str.strip()
Strip(s) == RStrip(LStrip(s))

AllIn(s, a, b, S) == \A k \in a..b : s[k] \in S
\* s[p..] starts with the literal w
HasAt(s, p, w) == p + Len(w) - 1 <= Len(s) /\ SubSeq(s, p, p + Len(w) - 1) = w
StartsWithAny(s, W) == \E w \in W : HasAt(s, 1, w)
\* str.isalnum() of one character
IsAlnum(c) == c \in Digits \/ c \in AsciiLetters \/ c \in CJK
\* re.IGNORECASE comparison of one character with an upper-case letter
IsLetter(c, up, low) == c = up \/ c = low

(***************************************************************************)
(* UI_FILTER_PATTERNS, each tried with re.match(pattern, text, IGNORECASE).*)
(***************************************************************************)
\* ^\d{1,2}:\d{2}$
ReClock(s) == \E k \in {1, 2} : Len(s) = k + 3 /\ AllIn(s, 1, k, Digits) /\ s[k + 1] = ":" /\ AllIn(s, k + 2, k + 3, Digits)
\* ^\d{1,2}:\d{2}:\d{2}$
ReClockSec(s) == \E k \in {1, 2} : Len(s) = k + 6 /\ AllIn(s, 1, k, Digits) /\ s[k + 1] = ":" /\ AllIn(s, k + 2, k + 3, Digits) /\ s[k + 4] = ":" /\ AllIn(s, k + 5, k + 6, Digits)
\* ^\d+\s*%$
ReBattery(s) == Len(s) >= 2 /\ s[Len(s)] = "%" /\ \E k \in 1..(Len(s) - 1) : AllIn(s, 1, k, Digits) /\ AllIn(s, k + 1, Len(s) - 1, Whitespace)
\* ^[45]G  and  5G\d*  (re.match anchors both at the start)
ReNetwork(s) == Len(s) >= 2 /\ s[1] \in {"4", "5"} /\ IsLetter(s[2], "G", "g")
\* ^HD$|^VoLTE$
ReHdVolte(s) == \/ Len(s) = 2 /\ IsLetter(s[1], "H", "h") /\ IsLetter(s[2], "D", "d")
                \/ Len(s) = 5 /\ IsLetter(s[1], "V", "v") /\ s[2] \in {"o", "O"} /\ IsLetter(s[3], "L", "l") /\ IsLetter(s[4], "T", "t") /\ IsLetter(s[5], "E", "e")
\* ^中国移动|^中国联通|^中国电信  and  ^CMCC|^CUCC|^CTCC
ReCarrier(s) == \/ StartsWithAny(s, {<<"zhong", "guo", "yi", "dong">>, <<"zhong", "guo", "lian", "tong">>, <<"zhong", "guo", "dian", "xin">>})
                \/ Len(s) >= 4 /\ IsLetter(s[1], "C", "c") /\ (IsLetter(s[2], "M", "m") \/ IsLetter(s[2], "U", "u") \/ IsLetter(s[2], "T", "t")) /\ IsLetter(s[3], "C", "c") /\ IsLetter(s[4], "C", "c")
\* the button labels, each ^word$
UiWords == {<<"fan", "hui">>, <<"fa", "song">>, <<"geng", "duo">>, <<"qu", "xiao1">>,
            <<"yu", "yin">>, <<"shi", "pin">>, <<"zhuan", "zhang">>, <<"hong", "bao">>, <<"wei", "zhi">>,
            <<"biao", "qing">>, <<"xiang", "ce">>, <<"pai", "she">>, <<"shou", "cang">>,
            <<"+">>,
            <<"xiao", "xi">>, <<"tong", "xun", "lu">>, <<"fa", "xian">>,
            <<"liao", "tian1">>, <<"peng", "you", "quan">>, <<"sao", "yi", "sao">>,
            <<".", ".", ".">>, <<"<">>, <<">">>, <<"<", "<">>, <<">", ">">>}
\* ^\[.*\]$
ReBracket(s) == Len(s) >= 2 /\ s[1] = "[" /\ s[Len(s)] = "]" /\ \A k \in 2..(Len(s) - 1) : s[k] # "\n"
\* ^GC\d*$
ReKeyboard(s) == Len(s) >= 2 /\ IsLetter(s[1], "G", "g") /\ IsLetter(s[2], "C", "c") /\ AllIn(s, 3, Len(s), Digits)

MatchesUiPattern(s) == ReClock(s) \/ ReClockSec(s) \/ ReBattery(s) \/ ReNetwork(s) \/ ReHdVolte(s) \/ ReCarrier(s) \/ s \in UiWords \/ ReBracket(s) \/ ReKeyboard(s)

\* _is_ui_text
IsUiText(raw) ==
    LET text == Strip(raw)
    IN  IF text = <<>> THEN TRUE
        ELSE IF Len(text) = 1
             THEN IF text[1] \in CJK THEN FALSE
                  ELSE IF IsAlnum(text[1]) THEN FALSE
                  ELSE TRUE
        ELSE MatchesUiPattern(text)

(***************************************************************************)
(* TIME_STAMP_PATTERNS, each tried with re.match and re.search.            *)
(***************************************************************************)
\* \d{1,2}月\d{1,2}日 matched at position p; the set of positions after it
MonthDayEnds(s, p) == {e \in p..(Len(s) + 1) : \E a \in {1, 2}, b \in {1, 2} :
                          /\ e = p + a + b + 2
                          /\ e <= Len(s) + 1
                          /\ AllIn(s, p, p + a - 1, Digits)
                          /\ s[p + a] = "yue"
                          /\ AllIn(s, p + a + 1, p + a + b, Digits)
                          /\ s[p + a + b + 1] = "ri"}
Weekdays == {"yi", "er", "san", "si", "wu", "liu", "ri"}
\* ^星期[一二三四五六日]$  and  ^周[一二三四五六日]$
ReWeekday(s) == \/ Len(s) = 3 /\ s[1] = "xing" /\ s[2] = "qi" /\ s[3] \in Weekdays
                \/ Len(s) = 2 /\ s[1] = "zhou" /\ s[2] \in Weekdays
\* ^上午|^下午|^凌晨|^晚上  and  ^昨天|^今天|^刚刚
ReDayPart(s) == StartsWithAny(s, {<<"shang", "wu3">>, <<"xia", "wu3">>, <<"ling", "chen">>, <<"wan", "shang">>,
                                   <<"zuo", "tian">>, <<"jin", "tian">>, <<"gang", "gang">>})
\* \d{4}[/\-年]\d{1,2}[/\-月]\d{1,2}  anywhere
ReFullDate(s) == \E p \in 1..Len(s), a \in {1, 2} :
                    /\ p + 6 + a <= Len(s)
                    /\ AllIn(s, p, p + 3, Digits)
                    /\ s[p + 4] \in {"/", "-", "nian"}
                    /\ AllIn(s, p + 5, p + 4 + a, Digits)
                    /\ s[p + 5 + a] \in {"/", "-", "yue"}
                    /\ s[p + 6 + a] \in Digits
\* \d{1,2}月\d{1,2}日.*\d{1,2}:\d{2}  anywhere
ReDateClock(s) == \E p \in 1..Len(s) : \E e \in MonthDayEnds(s, p) : \E q \in e..Len(s) :
                    /\ q + 3 <= Len(s)
                    /\ s[q] \in Digits /\ s[q + 1] = ":" /\ AllIn(s, q + 2, q + 3, Digits)
                    /\ \A k \in e..(q - 1) : s[k] # "\n"

\* _is_time_stamp
IsTimeStamp(raw) ==
    LET text == Strip(raw)
    IN  MonthDayEnds(text, 1) # {} \/ ReWeekday(text) \/ ReDayPart(text) \/ ReFullDate(text) \/ ReDateClock(text)

(***************************************************************************)
(* TextBox and its derived properties.                                     *)
(***************************************************************************)
\* the quadrilateral of an axis-aligned detection, in Polygon order
Rect(l, t, r, b) == <<<<l, t>>, <<r, t>>, <<r, b>>, <<l, b>>>>
Min2(a, b) == IF a <= b THEN a ELSE b
Max2(a, b) == IF a >= b THEN a ELSE b
Abs(a) == IF a >= 0 THEN a ELSE 0 - a
center_x(box) == (box.box[1][1] + box.box[2][1] + box.box[3][1] + box.box[4][1]) \div 4
center_y(box) == (box.box[1][2] + box.box[2][2] + box.box[3][2] + box.box[4][2]) \div 4
top_y(box) == Min2(Min2(box.box[1][2], box.box[2][2]), Min2(box.box[3][2], box.box[4][2]))
bottom_y(box) == Max2(Max2(box.box[1][2], box.box[2][2]), Max2(box.box[3][2], box.box[4][2]))
left_x(box) == Min2(Min2(box.box[1][1], box.box[2][1]), Min2(box.box[3][1], box.box[4][1]))
right_x(box) == Max2(Max2(box.box[1][1], box.box[2][1]), Max2(box.box[3][1], box.box[4][1]))

\* _is_in_status_bar:  box.top_y < image_height * 0.05
IsInStatusBar(box, image_height) == 100 * top_y(box) < 5 * image_height
\* _is_in_input_area:  box.bottom_y > image_height * 0.92
IsInInputArea(box, image_height) == 100 * bottom_y(box) > 92 * image_height

(***************************************************************************)
(* Speaker classification.  "我" is <<"wo">>, "对方" is <<"dui", "fang">>, *)
(* the undetermined speaker is the empty string.                           *)
(***************************************************************************)
Wo == <<"wo">>
DuiFang == <<"dui", "fang">>

\* is_green / is_white of _get_bubble_color, on a patch's mean colour in
\* degrees and percent
IsGreen(c) == 70 <= c.h /\ c.h <= 150 /\ c.s > 20 /\ c.v > 40
IsWhite(c) == c.s < 25 /\ c.v > 75

RECURSIVE CountVotesBoth(_, _, _)
\* a slip of lines 275-278:  if is_white  instead of  elif is_white
CountVotesBoth(patches, green_count, white_count) ==
    IF patches = <<>> THEN [green |-> green_count, white |-> white_count]
    ELSE CountVotesBoth(Tail(patches),
                        green_count + (IF IsGreen(Head(patches)) THEN 1 ELSE 0),
                        white_count + (IF IsWhite(Head(patches)) THEN 1 ELSE 0))

RECURSIVE CountVotes(_, _, _)
\* the voting loop of _get_bubble_color over the sampled patches
CountVotes(patches, green_count, white_count) ==
    IF patches = <<>> THEN [green |-> green_count, white |-> white_count]
    ELSE IF IsGreen(Head(patches)) THEN CountVotes(Tail(patches), green_count + 1, white_count)
    ELSE IF IsWhite(Head(patches)) THEN CountVotes(Tail(patches), green_count, white_count + 1)
    ELSE CountVotes(Tail(patches), green_count, white_count)

\* sample_points (lines 256-263): above, left and right of the box; int() of
\* a coordinate is the coordinate itself on the integer boxes of the model
SamplePoints(box) ==
    <<[x |-> left_x(box) + 5, y |-> top_y(box) - 15, w |-> 20, h |-> 10],
      [x |-> left_x(box) - 25, y |-> center_y(box) - 10, w |-> 20, h |-> 20],
      [x |-> right_x(box) + 5, y |-> center_y(box) - 10, w |-> 20, h |-> 20]>>
\* sample_color (lines 230-233): the point is clamped into the image and the
\* region (x, y, x + w, y + h) is cropped
ClampSample(p, img_width, img_height) ==
    [p EXCEPT !.x = Max2(0, Min2(p.x, img_width - p.w)), !.y = Max2(0, Min2(p.y, img_height - p.h))]
\* the regions _get_bubble_color reads for a box
SampledRegions(box, img_width, img_height) == [k \in 1..3 |-> ClampSample(SamplePoints(box)[k], img_width, img_height)]

\* _get_bubble_color: box.patches are the mean colours of the patches the
\* image holds above, left and right of the box
GetBubbleColor(box) ==
    LET n == CountVotes(box.patches, 0, 0)
    IN  IF n.green > n.white /\ n.green >= 1 THEN Wo
        ELSE IF n.white > n.green /\ n.white >= 1 THEN DuiFang
        ELSE <<>>

\* _classify_speaker_by_color
ClassifySpeakerByColor(box, chat_name) ==
    LET speaker == GetBubbleColor(box)
    IN  IF speaker = Wo THEN Wo
        ELSE IF speaker = DuiFang THEN OrElse(chat_name, Some(DuiFang)).val
        ELSE <<>>

\* a slip of line 396:  relative_right > 0.75 or relative_left > 0.35
ClassifySpeakerEitherEdge(box, image_width, chat_name) ==
    LET l == 100 * left_x(box)
        r == 100 * right_x(box)
    IN  IF r > 75 * image_width \/ l > 35 * image_width THEN Wo
        ELSE IF l < 25 * image_width /\ r < 65 * image_width THEN OrElse(chat_name, Some(DuiFang)).val
        ELSE IF r - l > 30 * image_width /\ l < 20 * image_width THEN OrElse(chat_name, Some(DuiFang)).val
        ELSE IF r - l > 30 * image_width /\ l > 30 * image_width THEN Wo
        ELSE <<>>

\* a slip of line 409:  relative_left < 0.25
ClassifySpeakerWideBelowQuarter(box, image_width, chat_name) ==
    LET l == 100 * left_x(box)
        r == 100 * right_x(box)
    IN  IF r > 75 * image_width /\ l > 35 * image_width THEN Wo
        ELSE IF l < 25 * image_width /\ r < 65 * image_width THEN OrElse(chat_name, Some(DuiFang)).val
        ELSE IF r - l > 30 * image_width /\ l < 25 * image_width THEN OrElse(chat_name, Some(DuiFang)).val
        ELSE IF r - l > 30 * image_width /\ l > 30 * image_width THEN Wo
        ELSE <<>>

\* _classify_speaker (position tier)
ClassifySpeaker(box, image_width, chat_name) ==
    LET l == 100 * left_x(box)
        r == 100 * right_x(box)
    IN  IF r > 75 * image_width /\ l > 35 * image_width THEN Wo
        ELSE IF l < 25 * image_width /\ r < 65 * image_width THEN OrElse(chat_name, Some(DuiFang)).val
        ELSE IF r - l > 30 * image_width /\ l < 20 * image_width THEN OrElse(chat_name, Some(DuiFang)).val
        ELSE IF r - l > 30 * image_width /\ l > 30 * image_width THEN Wo
        ELSE <<>>

(***************************************************************************)
(* _extract_chat_name                                                      *)
(***************************************************************************)
InTitleBand(box, image_height) == 3 * image_height < 100 * center_y(box) /\ 100 * center_y(box) < 10 * image_height
InRelaxedBand(box, image_height) == 100 * center_y(box) < 12 * image_height
DistanceToCenter(box, image_width) == Abs(2 * center_x(box) - image_width)
IsNameCandidate(box, image_width) ==
    /\ ~IsUiText(Strip(box.text))
    /\ Len(Strip(box.text)) >= 1 /\ Len(Strip(box.text)) <= 12
    /\ ~(2 * DistanceToCenter(box, image_width) > image_width)

ExtractChatName(boxes, image_width, image_height) ==
    LET strict == SelectSeq(boxes, LAMBDA b : InTitleBand(b, image_height))
        top_boxes == IF strict # <<>> THEN strict ELSE SelectSeq(boxes, LAMBDA b : InRelaxedBand(b, image_height))
        candidates == SelectSeq(top_boxes, LAMBDA b : IsNameCandidate(b, image_width))
        \* candidates.sort(key=distance) is stable: the first of the nearest
        best == CHOOSE k \in 1..Len(candidates) :
                    /\ \A j \in 1..Len(candidates) : DistanceToCenter(candidates[k], image_width) <= DistanceToCenter(candidates[j], image_width)
                    /\ \A j \in 1..(k - 1) : DistanceToCenter(candidates[j], image_width) > DistanceToCenter(candidates[k], image_width)
    IN  IF candidates = <<>> THEN None ELSE Some(Strip(candidates[best].text))

(***************************************************************************)
(* ChatMessage lists: sorting, merging, formatting.                        *)
(***************************************************************************)
ChatMessage(speaker, text, y_position) == [speaker |-> speaker, text |-> text, y_position |-> y_position]

RECURSIVE InsertByY(_, _)
\* msg goes after every message whose y_position is not larger (stable)
InsertByY(sorted, msg) ==
    IF sorted = <<>> THEN <<msg>>
    ELSE IF Head(sorted).y_position <= msg.y_position THEN <<Head(sorted)>> \o InsertByY(Tail(sorted), msg)
    ELSE <<msg>> \o sorted

RECURSIVE SortByYDescending(_)
\* a slip of the sort: reverse=True
SortByYDescending(messages) ==
    IF messages = <<>> THEN <<>>
    ELSE LET rest == SortByYDescending(SubSeq(messages, 1, Len(messages) - 1))
             msg == messages[Len(messages)]
             ahead == SelectSeq(rest, LAMBDA m : m.y_position >= msg.y_position)
             behind == SelectSeq(rest, LAMBDA m : m.y_position < msg.y_position)
         IN  ahead \o <<msg>> \o behind

RECURSIVE SortByY(_)
\* sorted(messages, key=lambda m: m.y_position)  and  messages.sort(key=...)
SortByY(messages) ==
    IF messages = <<>> THEN <<>>
    ELSE InsertByY(SortByY(SubSeq(messages, 1, Len(messages) - 1)), messages[Len(messages)])

\* y_threshold's default
MergeThreshold == 120


\* a slip of line 595:  y_diff <= y_threshold
ShouldFuseInclusive(msg, current, last_y, y_threshold) == msg.speaker = current.speaker /\ msg.y_position - last_y <= y_threshold

\* the condition of line 595
ShouldFuse(msg, current, last_y, y_threshold) == msg.speaker = current.speaker /\ msg.y_position - last_y < y_threshold


\* a slip of lines 598-605: the finished message is not appended
MergeStepDropsMessage(st, msg, y_threshold) ==
    IF ShouldFuse(msg, st.current, st.last_y, y_threshold)
    THEN [merged |-> st.merged,
          current |-> [st.current EXCEPT !.text = st.current.text \o msg.text],
          last_y |-> msg.y_position]
    ELSE [merged |-> st.merged,
          current |-> ChatMessage(msg.speaker, msg.text, msg.y_position),
          last_y |-> msg.y_position]

\* a slip of lines 595-607: the fused message moves to its latest line while
\* the gap is still measured from the line that opened it
MergeStepTracksLatestLine(st, msg, y_threshold) ==
    IF ShouldFuse(msg, st.current, st.last_y, y_threshold)
    THEN [merged |-> st.merged,
          current |-> [st.current EXCEPT !.text = st.current.text \o msg.text, !.y_position = msg.y_position],
          last_y |-> st.last_y]
    ELSE [merged |-> Append(st.merged, st.current),
          current |-> ChatMessage(msg.speaker, msg.text, msg.y_position),
          last_y |-> msg.y_position]

\* a slip of line 607: the gap is measured from the line that opened the
\* message, last_y being set only when a new message starts
MergeStepMeasuresFromFirstLine(st, msg, y_threshold) ==
    IF ShouldFuse(msg, st.current, st.last_y, y_threshold)
    THEN [merged |-> st.merged,
          current |-> [st.current EXCEPT !.text = st.current.text \o msg.text],
          last_y |-> st.last_y]
    ELSE [merged |-> Append(st.merged, st.current),
          current |-> ChatMessage(msg.speaker, msg.text, msg.y_position),
          last_y |-> msg.y_position]

\* one iteration of the loop of _merge_consecutive_messages (lines 591-607)
MergeStep(st, msg, y_threshold) ==
    IF ShouldFuse(msg, st.current, st.last_y, y_threshold)
    THEN [merged |-> st.merged,
          current |-> [st.current EXCEPT !.text = st.current.text \o msg.text],
          last_y |-> msg.y_position]
    ELSE [merged |-> Append(st.merged, st.current),
          current |-> ChatMessage(msg.speaker, msg.text, msg.y_position),
          last_y |-> msg.y_position]

RECURSIVE MergeLoop(_, _, _)
MergeLoop(rest, st, y_threshold) ==
    IF rest = <<>> THEN Append(st.merged, st.current)
    ELSE MergeLoop(Tail(rest), MergeStep(st, Head(rest), y_threshold), y_threshold)

\* _merge_consecutive_messages
MergeConsecutiveMessages(messages, y_threshold) ==
    IF messages = <<>> THEN <<>>
    ELSE LET sorted_messages == SortByY(messages)
         IN  MergeLoop(Tail(sorted_messages),
                       [merged |-> <<>>, current |-> Head(sorted_messages), last_y |-> Head(sorted_messages).y_position],
                       y_threshold)

\* "：" (U+FF1A), one character
FwColon == "U+FF1A"

RECURSIVE JoinLines(_)
\* "\n".join(lines)
JoinLines(lines) ==
    IF lines = <<>> THEN <<>>
    ELSE IF Len(lines) = 1 THEN lines[1]
    ELSE lines[1] \o <<"\n">> \o JoinLines(Tail(lines))

\* the speaker label of one line of _format_conversation (lines 621-623)
LineSpeaker(msg, chat_name) == IF msg.speaker # Wo /\ Truthy(chat_name) THEN DuiFang ELSE msg.speaker

\* _format_conversation
FormatConversation(messages, chat_name) ==
    JoinLines([k \in 1..Len(messages) |-> LineSpeaker(messages[k], chat_name) \o <<FwColon>> \o messages[k].text])

(***************************************************************************)
(* The body of the per-image loop of process_multiple_images_async.        *)
(* An image is what process_image makes of its bytes: kind "ok" with the   *)
(* original width and height and the parsed boxes, or the exception it     *)
(* raises ("undecodable": Image.open fails, "ocr_error": the OCR call      *)
(* raises).                                                                *)
(***************************************************************************)
\* a slip of line 772: the title is looked for in the top 10% only, the
\* band in which the name is first searched
IsChatTitleInFirstBand(box, image_height, current_chat_name) ==
    Truthy(current_chat_name) /\ Strip(box.text) = current_chat_name.val /\ 100 * center_y(box) < 10 * image_height

\* step 5 (lines 768-774): the box is the chat title
IsChatTitle(box, image_height, current_chat_name) ==
    Truthy(current_chat_name) /\ Strip(box.text) = current_chat_name.val /\ 100 * center_y(box) < 15 * image_height

\* a slip of lines 748-761: the two bands and the timestamps are not checked
IsFilteredByTextOnly(box, image_height, current_chat_name) ==
    \/ IsUiText(box.text)
    \/ IsChatTitle(box, image_height, current_chat_name)

\* steps 1-5 (lines 748-774): the box is filtered before classification
IsFiltered(box, image_height, current_chat_name) ==
    \/ IsInStatusBar(box, image_height)
    \/ IsInInputArea(box, image_height)
    \/ IsTimeStamp(box.text)
    \/ IsUiText(box.text)
    \/ IsChatTitle(box, image_height, current_chat_name)

\* steps 6-7 (lines 776-783): colour first, position when colour is undetermined
SpeakerOf(box, image_width, chat_name) ==
    LET by_color == ClassifySpeakerByColor(box, chat_name)
    IN  IF by_color # <<>> THEN by_color ELSE ClassifySpeaker(box, image_width, chat_name)


\* a slip of line 785: the message is appended whatever the speaker
KeepMessageAlways(speaker) == TRUE

\* line 785:  if speaker:
KeepMessage(speaker) == speaker # <<>>

RECURSIVE BoxMessages(_, _, _, _)
\* the loop over the boxes (lines 745-792): the messages appended, in OCR order
BoxMessages(boxes, image_width, image_height, current_chat_name) ==
    IF boxes = <<>> THEN <<>>
    ELSE LET box == Head(boxes)
             rest == BoxMessages(Tail(boxes), image_width, image_height, current_chat_name)
             speaker == SpeakerOf(box, image_width, current_chat_name)
         IN  IF IsFiltered(box, image_height, current_chat_name) THEN rest
             ELSE IF KeepMessage(speaker) THEN <<ChatMessage(speaker, Strip(box.text), center_y(box))>> \o rest
             ELSE rest

ImageOCRResult(image_index, raw_texts, messages) == [image_index |-> image_index, raw_texts |-> raw_texts, messages |-> messages]

\* a slip of line 736: the condition lacks  and not detected_chat_name
NextDetectedChatNameLatest(chat_name, detected) == IF Truthy(chat_name) THEN chat_name ELSE detected

\* lines 735-737: the first non-empty detection wins
NextDetectedChatName(chat_name, detected) == IF Truthy(chat_name) /\ ~Truthy(detected) THEN chat_name ELSE detected

\* lines 732-804 for an image process_image returns: the ImageOCRResult
\* appended and the detected_chat_name afterwards
ProcessOkImage(img, image_index, detected) ==
    LET chat_name == ExtractChatName(img.boxes, img.width, img.height)
        now_detected == NextDetectedChatName(chat_name, detected)
        messages == BoxMessages(img.boxes, img.width, img.height, OrElse(chat_name, now_detected))
    IN  [result |-> ImageOCRResult(image_index,
                                   [k \in 1..Len(img.boxes) |-> img.boxes[k].text],
                                   MergeConsecutiveMessages(SortByY(messages), MergeThreshold)),
         detected |-> now_detected]


\* a slip of line 810:  break  instead of  continue
AfterFailedImageBreak(index, n_images) == n_images

\* a failed image that takes the image after it along
AfterFailedImageSkipsNext(index, n_images) == Min2(index + 2, n_images)

\* lines 808-810:  except Exception: continue  -- the index of the next image
AfterFailedImage(index, n_images) == index + 1

(***************************************************************************)
(* After the loop: the raw dump, the refinement, the heuristic ordering.   *)
(***************************************************************************)
\* _format_raw_ocr_for_llm: the lines of one result; a literal piece of a
\* line is written as one chunk
RawLinesOf(result) ==
    <<<<"=== tu pian ", ToString(result.image_index + 1), " ===">>,
      <<"raw texts (count ", ToString(Len(result.raw_texts)), "):">>>>
    \o [k \in 1..Len(result.raw_texts) |-> <<"  ", ToString(k), ". ">> \o result.raw_texts[k]]
    \o <<<<>>, <<"messages (count ", ToString(Len(result.messages)), "):">>>>
    \o [k \in 1..Len(result.messages) |-> <<"  [">> \o result.messages[k].speaker \o <<"] ">> \o result.messages[k].text]
    \o <<<<>>>>

RECURSIVE RawLines(_)
RawLines(results) == IF results = <<>> THEN <<>> ELSE RawLinesOf(Head(results)) \o RawLines(Tail(results))

FormatRawOcrForLlm(results) == JoinLines(RawLines(results))

\* what the service hands back: a (conversation, partner name) pair, or an
\* exception leaving it
Returned(conversation, name) == [raised |-> FALSE, conversation |-> conversation, name |-> name]
Raised == [raised |-> TRUE, conversation |-> <<>>, name |-> None]

\* The refinement collaborator's behaviours.  Raised inside the try of
\* _refine_conversation_with_llm (lines 697-710):
\*   api_error        LLMAPIError: no API key, HTTP error, status other than 200
\*   timeout          LLMTimeoutError
\*   rate_limited     RateLimitError after the retries
\*   not_json         parse_llm_json raises ValueError
\*   json_not_object  result.get raises AttributeError
\* raised before it (line 658):
\*   import_error     app.services.llm_client cannot be imported
\* and json_object: a JSON object, with or without its two fields.
InsideTry == {"api_error", "timeout", "rate_limited", "not_json", "json_not_object"}
LlmOutcomes == InsideTry \cup {"import_error", "json_object"}

\* lines 712-717:  except LLMAPIError / except Exception
InnerTryCatches(outcome) == outcome \in InsideTry

\* _refine_conversation_with_llm
RefineConversationWithLlm(raw_ocr_text, detected, reply) ==
    IF reply.outcome = "json_object"
    THEN Returned(IF reply.has_conversation THEN reply.conversation ELSE <<>>,
                  IF reply.has_other_name THEN Some(reply.other_name) ELSE Some(OrElse(detected, Some(DuiFang)).val))
    ELSE IF InnerTryCatches(reply.outcome) THEN Returned(raw_ocr_text, detected)
    ELSE Raised


\* a slip of lines 820-827: no try around the refinement call
OuterTryCatchesNothing(outcome) == FALSE

\* lines 826-827:  except Exception  around the refinement call
OuterTryCatches(outcome) == TRUE

\* the per-image offset of line 832
OffsetConstant == 100000
MaxSide == 2000
MaxAttempts == 3

RECURSIVE OffsetResults(_, _)
\* lines 831-834: every message of the k-th result is moved by k * 100000
\* (k counts the results, from 0); the messages are the objects the
\* results hold, so the results change with them
OffsetResults(results, k) ==
    IF results = <<>> THEN <<>>
    ELSE <<[Head(results) EXCEPT !.messages = [j \in 1..Len(Head(results).messages) |->
                [Head(results).messages[j] EXCEPT !.y_position = @ + k * OffsetConstant]]]>>
         \o OffsetResults(Tail(results), k + 1)

RECURSIVE AllMessages(_)
\* line 835
AllMessages(results) == IF results = <<>> THEN <<>> ELSE Head(results).messages \o AllMessages(Tail(results))

\* lines 830-838: the final message sequence
HeuristicMessages(results) == MergeConsecutiveMessages(SortByY(AllMessages(OffsetResults(results, 0))), MergeThreshold)

\* lines 829-841
HeuristicReturn(results, detected) == Returned(FormatConversation(HeuristicMessages(results), detected), detected)

RECURSIVE LoopFrom(_, _, _, _)
\* the loop of lines 730-810 from image number index on
LoopFrom(imgs, index, results, detected) ==
    IF index >= Len(imgs) THEN [results |-> results, detected |-> detected]
    ELSE IF imgs[index + 1].kind = "ok"
    THEN LET done == ProcessOkImage(imgs[index + 1], index, detected)
         IN  LoopFrom(imgs, index + 1, Append(results, done.result), done.detected)
    ELSE LoopFrom(imgs, AfterFailedImage(index, Len(imgs)), results, detected)

\* process_multiple_images_async(imgs, use_llm_refine=False)
ProcessMultipleImagesHeuristic(imgs) ==
    LET after == LoopFrom(imgs, 0, <<>>, None)
    IN  IF after.results = <<>> THEN Returned(<<>>, None)
        ELSE HeuristicReturn(after.results, after.detected)

(***************************************************************************)
(* The inputs the model draws: boxes of a 1000 x 1000 screenshot.          *)
(***************************************************************************)
\* mean colours of a patch: the green bubble RGB(149, 236, 105), the white
\* bubble, and a dark background that is neither
Green == [h |-> 100, s |-> 56, v |-> 93]
White == [h |-> 0, s |-> 0, v |-> 100]
Dark == [h |-> 0, s |-> 0, v |-> 20]
TextBox(text, l, t, r, b, patch) == [text |-> text, box |-> Rect(l, t, r, b), confidence |-> 99, patches |-> <<patch, patch, patch>>]

BoxTitle == TextBox(<<"xiao", "ming">>, 450, 70, 550, 90, White)
BoxClock == TextBox(<<"1", "4", ":", "3", "2">>, 40, 30, 120, 50, White)
BoxSend == TextBox(<<"fa", "song">>, 850, 940, 950, 980, White)
\* a centred text whose top edge is in the status-bar band
BoxStatusName == TextBox(<<"xiao", "ming">>, 450, 40, 550, 80, White)
BoxSelf200 == TextBox(<<"ni", "hao">>, 600, 190, 900, 210, Green)
BoxPartner210 == TextBox(<<"zai", "ma">>, 100, 200, 400, 220, White)
BoxSelf210 == TextBox(<<"hao">>, 700, 200, 900, 220, Green)
BoxSelf320 == TextBox(<<"en">>, 700, 310, 900, 330, Green)
BoxPartnerByPosition == TextBox(<<"zai">>, 100, 440, 400, 460, Dark)
BoxAmbiguous == TextBox(<<"xi", "tong">>, 400, 490, 600, 510, Dark)
BoxSelf700 == TextBox(<<"ma">>, 600, 690, 900, 710, Green)

\* a date divider scrolled up under the header, on a green patch
BoxTimestamp == TextBox(<<"zuo", "tian">>, 450, 70, 550, 90, Green)
\* a green right-aligned text whose bottom edge is in the compose-bar band
BoxInputSelf == TextBox(<<"en">>, 600, 930, 900, 950, Green)
\* a header whose centre is at 11% of the height
BoxTitleLow == TextBox(<<"xiao", "hong">>, 450, 100, 550, 120, White)

BoxCatalog == {BoxTitle, BoxClock, BoxSend, BoxSelf200, BoxPartner210, BoxSelf210, BoxSelf320, BoxPartnerByPosition, BoxAmbiguous, BoxSelf700,
               BoxStatusName, BoxTimestamp, BoxInputSelf, BoxTitleLow}

OkImage(boxes) == [kind |-> "ok", width |-> 1000, height |-> 1000, boxes |-> boxes]
\* a long scrolling capture, 1000 x 120000, and a box far down in it
LongImage(boxes) == [kind |-> "ok", width |-> 1000, height |-> 120000, boxes |-> boxes]
BoxPartnerDeep == TextBox(<<"zai">>, 100, 100290, 400, 100310, White)
FailedImage(kind) == [kind |-> kind, width |-> 0, height |-> 0, boxes |-> <<>>]
SeqsUpTo(S, n) == UNION {[1..k -> S] : k \in 0..n}

\* the images of a request of Spec
ImageCatalog == {FailedImage("undecodable"), FailedImage("ocr_error"),
                 OkImage(<<>>),
                 OkImage(<<BoxClock, BoxSend>>),
                 OkImage(<<BoxTitle, BoxSelf200, BoxPartner210>>),
                 OkImage(<<BoxPartnerByPosition, BoxSelf700>>),
                 OkImage(<<BoxAmbiguous, BoxSelf320>>),
                 OkImage(<<BoxPartner210, BoxSelf210>>),
                 LongImage(<<BoxPartnerDeep>>),
                 OkImage(<<BoxStatusName, BoxSend>>),
                 OkImage(<<BoxTitleLow, BoxPartner210>>)}

\* what the collaborator may answer
LlmReplies == [outcome : LlmOutcomes \ {"json_object"}, has_conversation : {FALSE}, conversation : {<<>>}, has_other_name : {FALSE}, other_name : {<<>>}]
              \cup [outcome : {"json_object"}, has_conversation : {TRUE}, conversation : {<<>>, <<"wo", FwColon, "ni", "hao">>}, has_other_name : {TRUE}, other_name : {<<"xiao", "ming">>}]
              \cup [outcome : {"json_object"}, has_conversation : {FALSE}, conversation : {<<>>}, has_other_name : {FALSE}, other_name : {<<>>}]
NoReply == [outcome |-> "", has_conversation |-> FALSE, conversation |-> <<>>, has_other_name |-> FALSE, other_name |-> <<>>]

(***************************************************************************)
(* The route ocr_chat_screenshots.                                         *)
(***************************************************************************)
NoResponse == [status |-> 0, code |-> "", success |-> FALSE, conversation_text |-> <<>>, chat_name |-> None, image_count |-> 0]
\* lines 66-76 and 157-168
HttpError(status, code) == [status |-> status, code |-> code, success |-> FALSE, conversation_text |-> <<>>, chat_name |-> None, image_count |-> 0]
\* lines 133-153
RouteResponse(ret, image_count) ==
    IF ret.raised THEN HttpError(500, "OCR_PROCESS_ERROR")
    ELSE IF Strip(ret.conversation) = <<>>
    THEN [status |-> 200, code |-> "no_dialogue_recognised", success |-> FALSE, conversation_text |-> <<>>, chat_name |-> ret.name, image_count |-> image_count]
    ELSE [status |-> 200, code |-> "recognised", success |-> TRUE, conversation_text |-> ret.conversation, chat_name |-> ret.name, image_count |-> image_count]

(***************************************************************************)
(* Spec: one request through the route and process_multiple_images_async.  *)
(***************************************************************************)
\* the values of the variables a specification does not use
IdleImageIn == [image |-> OkImage(<<>>), detected |-> None]
NotProcessed == [done |-> FALSE, result |-> ImageOCRResult(0, <<>>, <<>>), detected |-> None]
NotMerged == [done |-> FALSE, messages |-> <<>>]
ImageIdle == img_in = IdleImageIn /\ img_out = NotProcessed
MergeIdle == mrg_in = <<>> /\ mrg_out = NotMerged /\ mrg_again = NotMerged
IdleBoxIn == [box |-> TextBox(<<>>, 0, 0, 0, 0, Dark), width |-> 0, height |-> 0, chat_name |-> None]
NotClassified == [done |-> FALSE, reaches |-> FALSE, regions |-> <<>>, by_color |-> <<>>, by_position |-> <<>>, speaker |-> <<>>]
BoxIdle == box_in = IdleBoxIn /\ box_out = NotClassified
NotParsed == [done |-> FALSE, raised |-> FALSE, boxes |-> <<>>]
ParseIdle == detections = <<>> /\ parsed = NotParsed
IdleShot == [width |-> 0, height |-> 0, corner |-> 0]
NotResized == [done |-> FALSE, raised |-> FALSE, width |-> 0, height |-> 0, detected |-> <<0, 0>>, mapped |-> <<>>]
ResizeIdle == shot = IdleShot /\ resized = NotResized
RetryIdle == attempts = <<>> /\ call_result = "idle" /\ history = <<>>
UsageIdle == usage_doc = [used |-> 0, limit |-> 0] /\ requests = <<>>

PipeInit ==
    /\ images \in SeqsUpTo(ImageCatalog, MaxImages)
    /\ use_llm_refine \in BOOLEAN
    /\ pc = "request"
    /\ i = 0
    /\ image_results = <<>>
    /\ detected_chat_name = None
    /\ merged_messages = <<>>
    /\ llm = NoReply
    /\ returned = Returned(<<>>, None)
    /\ response = NoResponse

Init ==
    /\ PipeInit
    /\ ImageIdle
    /\ MergeIdle
    /\ BoxIdle
    /\ ParseIdle
    /\ ResizeIdle
    /\ RetryIdle
    /\ UsageIdle

\* route lines 66-76: an empty upload is refused
RejectNoImages ==
    /\ pc = "request" /\ Len(images) = 0
    /\ response' = HttpError(400, "NO_IMAGES")
    /\ pc' = "responded"
    /\ UNCHANGED <<images, use_llm_refine, i, image_results, detected_chat_name, merged_messages, llm, returned, imageVars, mergeVars, boxVars, parseVars, resizeVars, retryVars, usageVars>>

\* route lines 128-131: the service is called
CallService ==
    /\ pc = "request" /\ Len(images) > 0
    /\ pc' = "loop"
    /\ UNCHANGED <<images, use_llm_refine, i, image_results, detected_chat_name, merged_messages, llm, returned, response, imageVars, mergeVars, boxVars, parseVars, resizeVars, retryVars, usageVars>>

\* lines 730-806: one image that process_image returns
ProcessImage ==
    /\ pc = "loop" /\ i < Len(images) /\ images[i + 1].kind = "ok"
    /\ LET done == ProcessOkImage(images[i + 1], i, detected_chat_name)
       IN  /\ image_results' = Append(image_results, done.result)
           /\ detected_chat_name' = done.detected
    /\ i' = i + 1
    /\ UNCHANGED <<images, use_llm_refine, pc, merged_messages, llm, returned, response, imageVars, mergeVars, boxVars, parseVars, resizeVars, retryVars, usageVars>>

\* lines 808-810: process_image raised
SkipImage ==
    /\ pc = "loop" /\ i < Len(images) /\ images[i + 1].kind # "ok"
    /\ i' = AfterFailedImage(i, Len(images))
    /\ UNCHANGED <<images, use_llm_refine, pc, image_results, detected_chat_name, merged_messages, llm, returned, response, imageVars, mergeVars, boxVars, parseVars, resizeVars, retryVars, usageVars>>

\* lines 812-813
ReturnNoResults ==
    /\ pc = "loop" /\ i = Len(images) /\ image_results = <<>>
    /\ returned' = Returned(<<>>, None)
    /\ pc' = "returned"
    /\ UNCHANGED <<images, use_llm_refine, i, image_results, detected_chat_name, merged_messages, llm, response, imageVars, mergeVars, boxVars, parseVars, resizeVars, retryVars, usageVars>>

\* lines 819-825: the refinement call returns
RefineReturns ==
    /\ pc = "loop" /\ i = Len(images) /\ image_results # <<>> /\ use_llm_refine
    /\ \E reply \in LlmReplies :
        LET ret == RefineConversationWithLlm(FormatRawOcrForLlm(image_results), detected_chat_name, reply)
        IN  /\ ~ret.raised
            /\ llm' = reply
            /\ returned' = ret
    /\ pc' = "returned"
    /\ UNCHANGED <<images, use_llm_refine, i, image_results, detected_chat_name, merged_messages, response, imageVars, mergeVars, boxVars, parseVars, resizeVars, retryVars, usageVars>>

\* lines 826-827: the refinement call raises
RefineRaises ==
    /\ pc = "loop" /\ i = Len(images) /\ image_results # <<>> /\ use_llm_refine
    /\ \E reply \in LlmReplies :
        /\ RefineConversationWithLlm(FormatRawOcrForLlm(image_results), detected_chat_name, reply).raised
        /\ llm' = reply
        /\ IF OuterTryCatches(reply.outcome)
           THEN pc' = "heuristic" /\ returned' = returned
           ELSE pc' = "returned" /\ returned' = Raised
    /\ UNCHANGED <<images, use_llm_refine, i, image_results, detected_chat_name, merged_messages, response, imageVars, mergeVars, boxVars, parseVars, resizeVars, retryVars, usageVars>>

\* lines 829-841
Heuristic ==
    /\ \/ pc = "loop" /\ i = Len(images) /\ image_results # <<>> /\ ~use_llm_refine
       \/ pc = "heuristic"
    /\ image_results' = OffsetResults(image_results, 0)
    /\ merged_messages' = HeuristicMessages(image_results)
    /\ returned' = HeuristicReturn(image_results, detected_chat_name)
    /\ pc' = "returned"
    /\ UNCHANGED <<images, use_llm_refine, i, detected_chat_name, llm, response, imageVars, mergeVars, boxVars, parseVars, resizeVars, retryVars, usageVars>>

\* route lines 133-168
Respond ==
    /\ pc = "returned"
    /\ response' = RouteResponse(returned, Len(images))
    /\ pc' = "responded"
    /\ UNCHANGED <<images, use_llm_refine, i, image_results, detected_chat_name, merged_messages, llm, returned, imageVars, mergeVars, boxVars, parseVars, resizeVars, retryVars, usageVars>>

Next == RejectNoImages \/ CallService \/ ProcessImage \/ SkipImage \/ ReturnNoResults \/ RefineReturns \/ RefineRaises \/ Heuristic \/ Respond

Spec == Init /\ [][Next]_vars

PipeIdle ==
    /\ images = <<>> /\ use_llm_refine = FALSE /\ pc = "idle" /\ i = 0
    /\ image_results = <<>> /\ detected_chat_name = None /\ merged_messages = <<>>
    /\ llm = NoReply /\ returned = Returned(<<>>, None) /\ response = NoResponse

(***************************************************************************)
(* SpecImage: the loop body on one image, its boxes drawn freely from the  *)
(* catalogue, after a batch prefix that detected a name or none.           *)
(***************************************************************************)
PriorNames == {None, Some(<<"xiao", "ming">>)}

ImageInit ==
    /\ img_in \in [image : {OkImage(boxes) : boxes \in SeqsUpTo(BoxCatalog, MaxBoxes)}, detected : PriorNames]
    /\ img_out = NotProcessed
    /\ PipeIdle
    /\ MergeIdle
    /\ BoxIdle
    /\ ParseIdle
    /\ ResizeIdle
    /\ RetryIdle
    /\ UsageIdle

\* lines 732-804 on img_in
ProcessOneImage ==
    /\ ~img_out.done
    /\ LET done == ProcessOkImage(img_in.image, 0, img_in.detected)
       IN  img_out' = [done |-> TRUE, result |-> done.result, detected |-> done.detected]
    /\ UNCHANGED <<img_in, pipeVars, mergeVars, boxVars, parseVars, resizeVars, retryVars, usageVars>>

ImageNext == ProcessOneImage

SpecImage == ImageInit /\ [][ImageNext]_vars

(***************************************************************************)
(* SpecMerge: _merge_consecutive_messages on a message list, and on its    *)
(* own result.                                                             *)
(***************************************************************************)
MsgYs == {0, 10, 120, 220, 500}
MsgCatalog == {ChatMessage(speaker, text, y) : speaker \in {Wo, DuiFang}, text \in {<<"ni">>, <<"hao">>}, y \in MsgYs}

MergeInit ==
    /\ mrg_in \in SeqsUpTo(MsgCatalog, MaxMsgs)
    /\ mrg_out = NotMerged
    /\ mrg_again = NotMerged
    /\ PipeIdle
    /\ ImageIdle
    /\ BoxIdle
    /\ ParseIdle
    /\ ResizeIdle
    /\ RetryIdle
    /\ UsageIdle

MergeOnce ==
    /\ ~mrg_out.done
    /\ mrg_out' = [done |-> TRUE, messages |-> MergeConsecutiveMessages(mrg_in, MergeThreshold)]
    /\ UNCHANGED <<mrg_in, mrg_again, pipeVars, imageVars, boxVars, parseVars, resizeVars, retryVars, usageVars>>

MergeAgain ==
    /\ mrg_out.done /\ ~mrg_again.done
    /\ mrg_again' = [done |-> TRUE, messages |-> MergeConsecutiveMessages(mrg_out.messages, MergeThreshold)]
    /\ UNCHANGED <<mrg_in, mrg_out, pipeVars, imageVars, boxVars, parseVars, resizeVars, retryVars, usageVars>>

MergeNext == MergeOnce \/ MergeAgain

SpecMerge == MergeInit /\ [][MergeNext]_vars

(***************************************************************************)
(* SpecBox: steps 1-7 of the loop over the boxes on one box of a           *)
(* 1000 x 1000 screenshot, its edges, its height on the screen and the     *)
(* colours around it drawn from grids.                                     *)
(***************************************************************************)
\* a pale green, green and white at once by is_green and is_white
PaleGreen == [h |-> 100, s |-> 22, v |-> 90]
PatchColours == {Green, White, Dark, PaleGreen}
BoxLefts == {0, 10, 100, 240, 300, 360, 500, 600}
BoxRights == {200, 400, 500, 640, 700, 760, 900, 990, 1000}
BoxTops == {40, 200, 940}
GridEdges == {e \in BoxLefts \X BoxRights : e[1] < e[2]}
GridBoxes == {[text |-> <<"ni", "hao">>, box |-> Rect(e[1], t, e[2], t + 20), confidence |-> 99, patches |-> <<above, left, right>>] :
                  e \in GridEdges, t \in BoxTops,
                  above \in PatchColours, left \in PatchColours, right \in PatchColours}

BoxInit ==
    /\ box_in \in [box : GridBoxes, width : {1000}, height : {1000}, chat_name : PriorNames]
    /\ box_out = NotClassified
    /\ PipeIdle
    /\ ImageIdle
    /\ MergeIdle
    /\ ParseIdle
    /\ ResizeIdle
    /\ RetryIdle
    /\ UsageIdle

\* lines 748-783 on box_in
ClassifyBox ==
    /\ ~box_out.done
    /\ box_out' = [done |-> TRUE,
                   reaches |-> ~IsFiltered(box_in.box, box_in.height, box_in.chat_name),
                   regions |-> SampledRegions(box_in.box, box_in.width, box_in.height),
                   by_color |-> ClassifySpeakerByColor(box_in.box, box_in.chat_name),
                   by_position |-> ClassifySpeaker(box_in.box, box_in.width, box_in.chat_name),
                   speaker |-> SpeakerOf(box_in.box, box_in.width, box_in.chat_name)]
    /\ UNCHANGED <<box_in, pipeVars, imageVars, mergeVars, parseVars, resizeVars, retryVars, usageVars>>

BoxNext == ClassifyBox

SpecBox == BoxInit /\ [][BoxNext]_vars

(***************************************************************************)
(* SpecParse: _parse_tencent_ocr_result on the TextDetections of one OCR   *)
(* response.  A field the engine left out is None; Confidence is kept in   *)
(* percent (the code divides it by 100.0).                                 *)
(***************************************************************************)
NoItemPolygon == [some |-> FALSE, X |-> 0, Y |-> 0, Width |-> 0, Height |-> 0]
ItemPolygon(x, y, width, height) == [some |-> TRUE, X |-> x, Y |-> y, Width |-> width, Height |-> height]
NoNumber == [some |-> FALSE, val |-> 0]
Number(n) == [some |-> TRUE, val |-> n]
Detection(text, confidence, polygon, item_polygon) ==
    [DetectedText |-> text, Confidence |-> confidence, Polygon |-> polygon, ItemPolygon |-> item_polygon]

RECURSIVE ParseLoop(_, _)
\* the loop of lines 426-452; None / 100.0 at line 432 raises TypeError,
\* which nothing in the function catches
ParseLoop(dets, boxes) ==
    IF dets = <<>> THEN [raised |-> FALSE, boxes |-> boxes]
    ELSE LET detection == Head(dets)
             text == detection.DetectedText
         IN  IF ~Truthy(text) \/ Strip(text.val) = <<>> THEN ParseLoop(Tail(dets), boxes)
             ELSE IF ~detection.Confidence.some THEN [raised |-> TRUE, boxes |-> <<>>]
             ELSE IF detection.Polygon # <<>>
                  THEN ParseLoop(Tail(dets), Append(boxes, [text |-> Strip(text.val), box |-> detection.Polygon, confidence |-> detection.Confidence.val]))
             ELSE IF detection.ItemPolygon.some
                  THEN LET ip == detection.ItemPolygon
                       IN  ParseLoop(Tail(dets), Append(boxes, [text |-> Strip(text.val),
                                                                box |-> Rect(ip.X, ip.Y, ip.X + ip.Width, ip.Y + ip.Height),
                                                                confidence |-> detection.Confidence.val]))
             ELSE ParseLoop(Tail(dets), boxes)

\* _parse_tencent_ocr_result
ParseTencentOcrResult(dets) == ParseLoop(dets, <<>>)

DetectionCatalog ==
    {Detection(Some(<<"ni", "hao">>), Number(99), Rect(600, 190, 900, 210), NoItemPolygon),
     Detection(Some(<<" ", "zai", "ma", " ">>), Number(87), Rect(100, 200, 400, 220), NoItemPolygon),
     Detection(Some(<<"en">>), Number(95), <<>>, ItemPolygon(700, 310, 200, 20)),
     Detection(Some(<<" ", " ">>), Number(90), Rect(0, 0, 10, 10), NoItemPolygon),
     Detection(None, Number(90), Rect(0, 0, 10, 10), NoItemPolygon),
     Detection(Some(<<"hao">>), Number(90), <<>>, NoItemPolygon),
     Detection(Some(<<"ma">>), NoNumber, Rect(600, 690, 900, 710), NoItemPolygon)}

ParseInit ==
    /\ detections \in SeqsUpTo(DetectionCatalog, MaxDetections)
    /\ parsed = NotParsed
    /\ PipeIdle
    /\ ImageIdle
    /\ MergeIdle
    /\ BoxIdle
    /\ ResizeIdle
    /\ RetryIdle
    /\ UsageIdle

\* one call of _parse_tencent_ocr_result
ParseResponse ==
    /\ ~parsed.done
    /\ LET result == ParseTencentOcrResult(detections)
       IN  parsed' = [done |-> TRUE, raised |-> result.raised, boxes |-> result.boxes]
    /\ UNCHANGED <<detections, pipeVars, imageVars, mergeVars, boxVars, resizeVars, retryVars, usageVars>>

ParseNext == ParseResponse

SpecParse == ParseInit /\ [][ParseNext]_vars

(***************************************************************************)
(* SpecResize: _preprocess_image and the coordinate mapping of             *)
(* process_image.  The code computes in IEEE double precision; ScaledSide  *)
(* is int(x * (max_side / L)) carried out on integers: the quotient        *)
(* max_side / L has 53 significant bits, its rounding direction is read    *)
(* off the remainder of max_side * 2^k by L, and the product x * scale     *)
(* falls below an integer n only when max_side * x / L = n exactly, the    *)
(* quotient was rounded down and the deficit exceeds half a unit in the    *)
(* last place of n.  A mapped coordinate is kept as the exact fraction     *)
(* p * original / resized, from which the double differs by at most one    *)
(* unit in the last place.                                                 *)
(***************************************************************************)
RECURSIVE Pow2(_)
Pow2(n) == IF n = 0 THEN 1 ELSE 2 * Pow2(n - 1)

RECURSIVE ScaleExponent(_, _)
\* the j with max_side * 2^j < L <= max_side * 2^(j+1)
ScaleExponent(L, j) == IF MaxSide * Pow2(j + 1) < L THEN ScaleExponent(L, j + 1) ELSE j

RECURSIVE DoubleMod(_, _, _)
\* (r * 2^k) mod L
DoubleMod(r, L, k) == IF k = 0 THEN r % L ELSE DoubleMod((2 * r) % L, L, k - 1)

RECURSIVE FloorLog2(_, _)
FloorLog2(n, e) == IF Pow2(e + 1) <= n THEN FloorLog2(n, e + 1) ELSE e

\* int(x * scale) with scale = max_side / L, for 1 <= x <= L and L > max_side
ScaledSide(x, L) ==
    LET j == ScaleExponent(L, 0)
        rem == DoubleMod(MaxSide, L, 53 + j)
        n == (MaxSide * x) \div L
        e == FloorLog2(n, 0)
        ulps == IF n = Pow2(e) THEN 2 * x * rem ELSE x * rem
    IN  IF (MaxSide * x) % L # 0 THEN n
        ELSE IF rem = 0 \/ 2 * rem > L THEN n
        ELSE IF ulps > L * Pow2(e + j) THEN n - 1
        ELSE n

\* _preprocess_image: the size of the image sent to the engine; a resize
\* to a side of 0 does not give an image that process_image can use
\* (Image.resize rejects it, and original / 0 raises ZeroDivisionError)
PreprocessImage(width, height) ==
    IF width <= MaxSide /\ height <= MaxSide
    THEN [raised |-> FALSE, width |-> width, height |-> height]
    ELSE LET L == Max2(width, height)
             new_width == ScaledSide(width, L)
             new_height == ScaledSide(height, L)
         IN  [raised |-> new_width = 0 \/ new_height = 0, width |-> new_width, height |-> new_height]

Fraction(num, den) == [num |-> num, den |-> den]

\* p * scale_x, p * scale_y of lines 503-505
MapPoint(p, original_width, original_height, width, height) ==
    IF original_width # width \/ original_height # height
    THEN <<Fraction(p[1] * original_width, width), Fraction(p[2] * original_height, height)>>
    ELSE <<Fraction(p[1], 1), Fraction(p[2], 1)>>

Sides == {1, 14, 531, 1000, 2000, 2001, 2105, 2124, 4000, 30000}

ResizeInit ==
    /\ shot \in [width : Sides, height : Sides, corner : 0..2]
    /\ resized = NotResized
    /\ PipeIdle
    /\ ImageIdle
    /\ MergeIdle
    /\ BoxIdle
    /\ ParseIdle
    /\ RetryIdle
    /\ UsageIdle

\* process_image on one upload; the engine reports one point of the image
\* it was sent: its origin, its centre or its far corner
ProcessImageGeometry ==
    /\ ~resized.done
    /\ LET image == PreprocessImage(shot.width, shot.height)
           p == <<(image.width * shot.corner) \div 2, (image.height * shot.corner) \div 2>>
       IN  resized' = IF image.raised
                      THEN [NotResized EXCEPT !.done = TRUE, !.raised = TRUE, !.width = image.width, !.height = image.height]
                      ELSE [done |-> TRUE, raised |-> FALSE, width |-> image.width, height |-> image.height,
                            detected |-> p, mapped |-> MapPoint(p, shot.width, shot.height, image.width, image.height)]
    /\ UNCHANGED <<shot, pipeVars, imageVars, mergeVars, boxVars, parseVars, retryVars, usageVars>>

ResizeNext == ProcessImageGeometry

SpecResize == ResizeInit /\ [][ResizeNext]_vars

(***************************************************************************)
(* SpecRetry: LLMClient._call_api under its tenacity decorator.  An        *)
(* attempt meets one of: a 200 response, a client-side timeout, a 429, or  *)
(* another failure (a status that is neither, or an httpx.HTTPError).      *)
(***************************************************************************)
\* the exception that leaves the function body for what an attempt met:
\* lines 120-122, 125-128, and the except clauses of 134-139
RaisedBy(met) ==
    CASE met = "timeout" -> "LLMTimeoutError"
      [] met = "429" -> "RateLimitError"
      [] OTHER -> "LLMAPIError"

\* retry=retry_if_exception_type((httpx.TimeoutException, RateLimitError))
IsRetried(exception) == exception \in {"httpx.TimeoutException", "RateLimitError"}

\* the decorator after an attempt that raised: another attempt (""), or
\* with stop_after_attempt(3) and reraise=True the exception itself
AfterRaise(exception, n_attempts) ==
    IF IsRetried(exception) /\ n_attempts < MaxAttempts THEN "" ELSE exception

RetryInit ==
    /\ attempts = <<>>
    /\ call_result = ""
    /\ history = <<>>
    /\ PipeIdle
    /\ ImageIdle
    /\ MergeIdle
    /\ BoxIdle
    /\ ParseIdle
    /\ ResizeIdle
    /\ UsageIdle

\* an attempt gets a 200 response: line 130
AttemptReturns ==
    /\ call_result = ""
    /\ attempts' = Append(attempts, "200")
    /\ call_result' = "returned"
    /\ UNCHANGED <<history, pipeVars, imageVars, mergeVars, boxVars, parseVars, resizeVars, usageVars>>

\* an attempt raises
AttemptRaises(met) ==
    /\ call_result = ""
    /\ attempts' = Append(attempts, met)
    /\ call_result' = AfterRaise(RaisedBy(met), Len(attempts) + 1)
    /\ UNCHANGED <<history, pipeVars, imageVars, mergeVars, boxVars, parseVars, resizeVars, usageVars>>

\* httpx.TimeoutException inside the client: lines 134-136
AttemptTimesOut == AttemptRaises("timeout")
\* status 429: lines 120-122
AttemptRateLimited == AttemptRaises("429")
\* any other status, or an httpx.HTTPError: lines 125-128, 137-139
AttemptFails == \E met \in {"500", "http_error"} : AttemptRaises(met)

\* the next call of _call_api
NextCall ==
    /\ call_result # "" /\ Len(history) + 1 < MaxCalls
    /\ history' = Append(history, [attempts |-> attempts, result |-> call_result])
    /\ attempts' = <<>>
    /\ call_result' = ""
    /\ UNCHANGED <<pipeVars, imageVars, mergeVars, boxVars, parseVars, resizeVars, usageVars>>

RetryNext == AttemptReturns \/ AttemptTimesOut \/ AttemptRateLimited \/ AttemptFails \/ NextCall

SpecRetry == RetryInit /\ [][RetryNext]_vars

(***************************************************************************)
(* SpecUsage: concurrent requests of one user to one feature.  Each        *)
(* request awaits check_usage_limit, then, if allowed, the insert of its   *)
(* session record and increment_usage; requests interleave at the awaits.  *)
(***************************************************************************)
\* UsageCheckResult of check_usage_limit (lines 127-144) for the document read
UsageCheckResult(used, limit) ==
    [allowed |-> used < limit, used |-> used, limit |-> limit, remaining |-> Max2(0, limit - used)]

NotChecked == [allowed |-> FALSE, used |-> 0, limit |-> 0, remaining |-> 0]

UsageInit ==
    /\ usage_doc \in [used : {0}, limit : 1..MaxLimit]
    /\ requests = [r \in 1..MaxRequests |-> [pc |-> "start", check |-> NotChecked]]
    /\ PipeIdle
    /\ ImageIdle
    /\ MergeIdle
    /\ BoxIdle
    /\ ParseIdle
    /\ ResizeIdle
    /\ RetryIdle

\* check_usage_limit as a request calls it; a refused request ends with 403
CheckUsageLimit ==
    /\ \E r \in DOMAIN requests :
        /\ requests[r].pc = "start"
        /\ LET usage_check == UsageCheckResult(usage_doc.used, usage_doc.limit)
           IN  requests' = [requests EXCEPT ![r] = [pc |-> IF usage_check.allowed THEN "allowed" ELSE "refused", check |-> usage_check]]
    /\ UNCHANGED <<usage_doc, pipeVars, imageVars, mergeVars, boxVars, parseVars, resizeVars, retryVars>>

\* increment_usage: $inc of the used count by 1, whatever the count is
IncrementUsage ==
    /\ \E r \in DOMAIN requests :
        /\ requests[r].pc = "allowed"
        /\ requests' = [requests EXCEPT ![r].pc = "counted"]
    /\ usage_doc' = [usage_doc EXCEPT !.used = usage_doc.used + 1]
    /\ UNCHANGED <<pipeVars, imageVars, mergeVars, boxVars, parseVars, resizeVars, retryVars>>

UsageNext == CheckUsageLimit \/ IncrementUsage

SpecUsage == UsageInit /\ [][UsageNext]_vars

(***************************************************************************)
(* Properties.                                                             *)
(***************************************************************************)
Decodes(img) == img.kind # "undecodable"
ProcessImageReturns(img) == img.kind = "ok"
\* the failures of the refinement collaborator: an exception of the call,
\* or a reply that does not hold the transcript
RefinementFailed(reply) ==
    \/ reply.outcome \in {"api_error", "timeout", "rate_limited", "not_json", "json_not_object"}
    \/ reply.outcome = "json_object" /\ ~reply.has_conversation

\* C1: with use_llm_refine=true, whenever the refinement collaborator fails
\* (API error, timeout, rate limit, non-JSON text, JSON that is no object, an
\* object without the transcript), the returned transcript is the one the
\* call returns for the same images with use_llm_refine=false.
C1_RefinementFailureGivesHeuristicTranscript ==
    (pc = "returned" /\ use_llm_refine /\ RefinementFailed(llm))
        => returned.conversation = ProcessMultipleImagesHeuristic(images).conversation

\* C2: no failure of the refinement collaborator leaves
\* process_multiple_images_async as an exception: whatever the batch and the
\* collaborator's outcome, the call hands back a (transcript, partner name)
\* pair and the route never answers 500.
C2_RefinementFailureNeverPropagates ==
    /\ ~returned.raised
    /\ response.status # 500
    /\ (llm.outcome # "" => pc \in {"heuristic", "returned", "responded"})

C2_Witness ==
    /\ pc = "returned" /\ use_llm_refine /\ ~returned.raised
    /\ llm.outcome \in {"api_error", "timeout", "rate_limited", "not_json", "json_not_object", "import_error"}

\* C3: if no image of the batch yields any text box, the call returns an
\* empty transcript and a None partner name, for both values of
\* use_llm_refine and whatever the collaborator returns or raises.
C3_NoTextBoxGivesEmptyTranscript ==
    (pc = "returned" /\ \A k \in 1..Len(images) : images[k].boxes = <<>>)
        => returned = Returned(<<>>, None)

\* C4: when every image of a non-empty batch fails to decode, the operation
\* ends in an explicit failure the caller can tell apart from the normal
\* "no content recognised" answer (the answer to as many images that decode
\* and hold no dialogue); when at least one image decodes, no per-image
\* error makes the operation fail.
C4_UndecodableBatchIsAnExplicitFailure ==
    pc = "responded" /\ Len(images) > 0 =>
        /\ (\A k \in 1..Len(images) : ~Decodes(images[k]))
              => response # RouteResponse(ProcessMultipleImagesHeuristic([k \in 1..Len(images) |-> OkImage(<<>>)]), Len(images))
        /\ (\E k \in 1..Len(images) : Decodes(images[k])) => response.status = 200

\* C5: an image whose bytes cannot be decoded or whose OCR call raises is
\* skipped and the remaining images are still processed: with
\* use_llm_refine=false the returned transcript and partner name are those
\* of the same batch with the failing images removed.
C5_FailedImagesAreSkipped ==
    (pc = "returned" /\ ~use_llm_refine)
        => returned = ProcessMultipleImagesHeuristic(SelectSeq(images, ProcessImageReturns))

C5_Witness ==
    /\ pc = "returned" /\ ~use_llm_refine
    /\ Len(images) = 2 /\ ~ProcessImageReturns(images[1]) /\ ProcessImageReturns(images[2])
    /\ returned.conversation # <<>>

\* the partner labels of a batch: "对方" and the names its titles yield
PartnerLabels(imgs) ==
    {DuiFang} \cup {ExtractChatName(imgs[k].boxes, imgs[k].width, imgs[k].height).val :
                        k \in {j \in 1..Len(imgs) : imgs[j].kind = "ok" /\ Truthy(ExtractChatName(imgs[j].boxes, imgs[j].width, imgs[j].height))}}
WellFormedMessage(msg, imgs) ==
    /\ msg.text # <<>>
    /\ msg.speaker # <<>>
    /\ msg.speaker = Wo \/ msg.speaker \in PartnerLabels(imgs)
\* neither tier attributes the box
Undetermined(box, image_width) == GetBubbleColor(box) = <<>> /\ ClassifySpeaker(box, image_width, None) = <<>>

\* C6: every ChatMessage of every ImageOCRResult and of the final message
\* sequence has a non-empty text and a speaker that is "我" (Self) or the
\* partner label; a box neither tier attributes is dropped and never becomes
\* a message with an empty speaker.
C6_MessagesHaveTextAndSpeaker ==
    /\ \A k \in 1..Len(image_results) : \A j \in 1..Len(image_results[k].messages) :
            WellFormedMessage(image_results[k].messages[j], images)
    /\ \A j \in 1..Len(merged_messages) : WellFormedMessage(merged_messages[j], images)
    /\ \A k \in 1..Len(image_results) :
            LET img == images[image_results[k].image_index + 1]
            IN  Len(image_results[k].messages) <= Cardinality({j \in 1..Len(img.boxes) : ~Undetermined(img.boxes[j], img.width)})

C6_Witness ==
    /\ pc = "returned" /\ merged_messages # <<>>
    /\ \E k \in 1..Len(images) : \E j \in 1..Len(images[k].boxes) :
            /\ Undetermined(images[k].boxes[j], images[k].width)
            /\ ~IsFiltered(images[k].boxes[j], images[k].height, None)

\* C7 as claimed: within one image the y_position values of the messages
\* are strictly increasing: no two messages of one ImageOCRResult share a
\* y_position.
C7_StrictlyIncreasingAsClaimed ==
    img_out.done => \A j, k \in 1..Len(img_out.result.messages) :
        j < k => img_out.result.messages[j].y_position < img_out.result.messages[k].y_position

\* C7: within one image, before the cross-image offset, the y_position
\* values of the messages never decrease in reading order, and two
\* neighbouring messages that share a y_position have different speakers.
C7_NonDecreasingWithinImage ==
    img_out.done => \A k \in 1..(Len(img_out.result.messages) - 1) :
        LET a == img_out.result.messages[k]
            b == img_out.result.messages[k + 1]
        IN  /\ a.y_position <= b.y_position
            /\ a.y_position = b.y_position => a.speaker # b.speaker

C7_Witness ==
    /\ img_out.done
    /\ Len(img_out.result.messages) = 3
    /\ img_out.result.messages[1].y_position = img_out.result.messages[2].y_position
    /\ img_out.result.messages[2].y_position < img_out.result.messages[3].y_position

IsSortedByY(messages) == \A k \in 1..(Len(messages) - 1) : messages[k].y_position <= messages[k + 1].y_position
RECURSIVE ConcatTexts(_)
ConcatTexts(messages) == IF messages = <<>> THEN <<>> ELSE Head(messages).text \o ConcatTexts(Tail(messages))
RECURSIVE IsFusionOf(_, _)
\* out is the list given with runs of neighbouring same-speaker messages
\* fused, each run into one message at the place of its first
IsFusionOf(out, given) ==
    IF out = <<>> THEN given = <<>>
    ELSE \E n \in 1..Len(given) :
            /\ \A k \in 1..n : given[k].speaker = Head(out).speaker
            /\ Head(out).text = ConcatTexts(SubSeq(given, 1, n))
            /\ Head(out).y_position = given[1].y_position
            /\ IsFusionOf(Tail(out), SubSeq(given, n + 1, Len(given)))

\* C8: every call of _merge_consecutive_messages (its argument is ordered by
\* y_position at every call site) returns the messages in their order with
\* only neighbouring same-speaker entries fused: none is moved, dropped or
\* duplicated, and the texts concatenated in order are the same before and
\* after.
C8_MergeKeepsOrder ==
    (mrg_out.done /\ IsSortedByY(mrg_in)) =>
        /\ IsFusionOf(mrg_out.messages, mrg_in)
        /\ ConcatTexts(mrg_out.messages) = ConcatTexts(mrg_in)

C8_Witness ==
    /\ mrg_out.done /\ IsSortedByY(mrg_in)
    /\ Len(mrg_in) = 3 /\ Len(mrg_out.messages) = 2
    /\ mrg_in[1].text # mrg_in[2].text

\* C9: _merge_consecutive_messages is idempotent: merging the result of a
\* merge returns a list identical in speakers, texts and y_positions.
C9_MergeIsIdempotent ==
    mrg_again.done => mrg_again.messages = mrg_out.messages

C9_Witness ==
    /\ mrg_again.done
    /\ Len(mrg_out.messages) < Len(mrg_in)
    /\ \E k \in 1..(Len(mrg_out.messages) - 1) : mrg_out.messages[k].speaker = mrg_out.messages[k + 1].speaker

\* C10: two same-speaker boxes with no message between them become one
\* message, the upper text directly followed by the lower, when their
\* vertical distance is below the threshold of 120, and stay two messages
\* when it is 120 or more; two boxes of different speakers are never fused.
C10_MergeByDistance ==
    (mrg_out.done /\ Len(mrg_in) = 2) =>
        LET upper == SortByY(mrg_in)[1]
            lower == SortByY(mrg_in)[2]
        IN  /\ (upper.speaker = lower.speaker /\ lower.y_position - upper.y_position < 120)
                  => mrg_out.messages = <<ChatMessage(upper.speaker, upper.text \o lower.text, upper.y_position)>>
            /\ (upper.speaker = lower.speaker /\ lower.y_position - upper.y_position >= 120)
                  => mrg_out.messages = <<upper, lower>>
            /\ upper.speaker # lower.speaker => mrg_out.messages = <<upper, lower>>

C10_Witness ==
    /\ mrg_out.done /\ Len(mrg_in) = 2
    /\ mrg_in[1].speaker = mrg_in[2].speaker
    /\ mrg_in[2].y_position - mrg_in[1].y_position = 10
    /\ Len(mrg_out.messages) = 1

\* the messages of a batch by the two-level key (position of the image in
\* the input, place of the message within its image)
TwoLevelOrder(imgs) == AllMessages(LoopFrom(imgs, 0, <<>>, None).results)
SpeakersAndTexts(messages) == [k \in 1..Len(messages) |-> <<messages[k].speaker, messages[k].text>>]

\* C11: with use_llm_refine=false the final transcript is the per-image
\* transcripts in input order: the final messages are the messages of the
\* images ordered by (image position, place within the image), none of one
\* image fused with one of another.
C11_TranscriptFollowsTwoLevelKey ==
    (pc = "returned" /\ ~use_llm_refine) =>
        /\ SpeakersAndTexts(merged_messages) = SpeakersAndTexts(TwoLevelOrder(images))
        /\ returned.conversation = FormatConversation(TwoLevelOrder(images), returned.name)

\* a line of the transcript as the spec words it: "我" for Self, the
\* resolved partner name for Partner
NamedLine(msg, name) == (IF msg.speaker = Wo THEN Wo ELSE name) \o <<FwColon>> \o msg.text

\* C12: the heuristic transcript has one line "{speaker}：{text}" per
\* message, "我" for a Self message and the resolved partner name for a
\* Partner message whenever a name was detected; the returned partner name
\* is that name.
C12_PartnerLinesCarryResolvedName ==
    (pc = "returned" /\ ~use_llm_refine /\ Truthy(detected_chat_name)) =>
        /\ returned.name = detected_chat_name
        /\ returned.conversation = JoinLines([k \in 1..Len(merged_messages) |-> NamedLine(merged_messages[k], detected_chat_name.val)])

\* every box of the image lies in the status-bar band or the compose-bar band
ChromeOnly(img) ==
    /\ img.kind = "ok" /\ img.boxes # <<>>
    /\ \A k \in 1..Len(img.boxes) : IsInStatusBar(img.boxes[k], img.height) \/ IsInInputArea(img.boxes[k], img.height)

\* C13: for a single image whose only boxes lie in the status-bar band or
\* the compose-bar band the pipeline returns an empty transcript and a None
\* partner name, whatever the texts and horizontal positions of the boxes.
C13_ChromeOnlyImageGivesNothing ==
    (pc = "returned" /\ Len(images) = 1 /\ ChromeOnly(images[1])) => returned = Returned(<<>>, None)

\* the box lies fully in the right / the left half of the image
FullyRight(box, image_width) == 100 * left_x(box) >= 50 * image_width
FullyLeft(box, image_width) == 100 * right_x(box) <= 50 * image_width
\* every sample around the box is green / is white
GreenBubble(box) == \A k \in 1..Len(box.patches) : IsGreen(box.patches[k])
WhiteBubble(box) == \A k \in 1..Len(box.patches) : IsWhite(box.patches[k]) /\ ~IsGreen(box.patches[k])
\* the label of a Partner message
PartnerLabel(chat_name) == IF Truthy(chat_name) THEN chat_name.val ELSE DuiFang

\* C14 as claimed: for a green box fully in the right half both tiers output
\* Self, for a white box fully in the left half both output Partner.
C14_BothTiersDecideAsClaimed ==
    box_out.done =>
        /\ (FullyRight(box_in.box, box_in.width) /\ GreenBubble(box_in.box))
              => box_out.by_color = Wo /\ box_out.by_position = Wo
        /\ (FullyLeft(box_in.box, box_in.width) /\ WhiteBubble(box_in.box))
              => box_out.by_color = PartnerLabel(box_in.chat_name) /\ box_out.by_position = PartnerLabel(box_in.chat_name)

\* C14: for a green box fully in the right half the colour tier outputs
\* Self and the position tier Self or undetermined, Self whenever the right
\* edge is beyond 75% of the width; for a white box fully in the left half
\* the colour tier outputs Partner and the position tier Partner or
\* undetermined, Partner whenever the left edge is below 25% of the width;
\* neither tier outputs the opposite speaker.
C14_TiersNeverContradict ==
    box_out.done =>
        /\ (FullyRight(box_in.box, box_in.width) /\ GreenBubble(box_in.box)) =>
              /\ box_out.by_color = Wo
              /\ box_out.by_position \in {Wo, <<>>}
              /\ 100 * right_x(box_in.box) > 75 * box_in.width => box_out.by_position = Wo
              /\ box_out.speaker = Wo
        /\ (FullyLeft(box_in.box, box_in.width) /\ WhiteBubble(box_in.box)) =>
              /\ box_out.by_color = PartnerLabel(box_in.chat_name)
              /\ box_out.by_position \in {PartnerLabel(box_in.chat_name), <<>>}
              /\ 100 * left_x(box_in.box) < 25 * box_in.width => box_out.by_position = PartnerLabel(box_in.chat_name)
              /\ box_out.speaker = PartnerLabel(box_in.chat_name)

C14_Witness ==
    /\ box_out.done /\ box_out.reaches
    /\ FullyRight(box_in.box, box_in.width) /\ GreenBubble(box_in.box)
    /\ box_out.by_color = Wo /\ box_out.by_position = <<>>

\* the box is noise by its place or by its text: top edge in the top 5%,
\* bottom edge in the bottom 8%, or a timestamp
IsNoise(box, image_height) == IsInStatusBar(box, image_height) \/ IsInInputArea(box, image_height) \/ IsTimeStamp(box.text)
CountIn(c, s) == Cardinality({k \in 1..Len(s) : s[k] = c})
RECURSIVE KeptText(_, _)
\* the texts of the boxes that are no noise, one after the other
KeptText(boxes, image_height) ==
    IF boxes = <<>> THEN <<>>
    ELSE (IF IsNoise(Head(boxes), image_height) THEN <<>> ELSE Strip(Head(boxes).text)) \o KeptText(Tail(boxes), image_height)

\* C15: no box whose top edge lies in the top 5% of the image, whose bottom
\* edge lies in the bottom 8%, or whose text is a timestamp contributes text
\* to a message, whatever its colour and horizontal position: the messages
\* hold no character beyond those of the other boxes, and no more messages
\* than there are other boxes.
C15_NoiseBoxesContributeNoText ==
    img_out.done =>
        LET said == ConcatTexts(img_out.result.messages)
            kept == KeptText(img_in.image.boxes, img_in.image.height)
        IN  /\ \A k \in 1..Len(said) : CountIn(said[k], said) <= CountIn(said[k], kept)
            /\ Len(img_out.result.messages) <= Cardinality({k \in 1..Len(img_in.image.boxes) : ~IsNoise(img_in.image.boxes[k], img_in.image.height)})

C15_Witness ==
    /\ img_out.done /\ img_out.result.messages # <<>>
    /\ BoxClock \in {img_in.image.boxes[k] : k \in 1..Len(img_in.image.boxes)}
    /\ \E k \in 1..Len(img_in.image.boxes) :
          /\ IsNoise(img_in.image.boxes[k], img_in.image.height)
          /\ ~IsUiText(img_in.image.boxes[k].text)
          /\ GetBubbleColor(img_in.image.boxes[k]) = Wo

\* the name an image yields by itself
NameOf(img) == IF img.kind = "ok" THEN ExtractChatName(img.boxes, img.width, img.height) ELSE None
RECURSIVE FirstName(_)
\* the name of the earliest image that yields a non-empty one
FirstName(imgs) ==
    IF imgs = <<>> THEN None
    ELSE IF Truthy(NameOf(Head(imgs))) THEN NameOf(Head(imgs))
    ELSE FirstName(Tail(imgs))

\* C16: the partner name of the heuristic path is the name of the earliest
\* image, in input order, that yields a non-empty name: while the batch is
\* iterated the detected name is that of the images handled so far, a later
\* detection never replaces it, and it is None exactly when no processed
\* image yields a name.
C16_FirstDetectedNameWins ==
    /\ pc \in {"loop", "heuristic", "returned", "responded"} => detected_chat_name = FirstName(SubSeq(images, 1, i))
    /\ (pc = "returned" /\ ~use_llm_refine) =>
          /\ returned.name = FirstName(images)
          /\ returned.name = None <=> \A k \in 1..Len(images) : ~Truthy(NameOf(images[k]))

C16_Witness ==
    /\ pc = "returned" /\ ~use_llm_refine /\ Len(images) = 2
    /\ Truthy(NameOf(images[1])) /\ Truthy(NameOf(images[2]))
    /\ NameOf(images[1]) # NameOf(images[2])
    /\ returned.name = NameOf(images[1])

\* the samples the vote counts as green, and as neutral: a sample that is
\* green is not looked at for neutral
GreenSamples(box) == {k \in 1..Len(box.patches) : IsGreen(box.patches[k])}
NeutralSamples(box) == {k \in 1..Len(box.patches) : ~IsGreen(box.patches[k]) /\ IsWhite(box.patches[k])}

\* C17: the colour tier counts each sample as green, as neutral or as
\* neither; it returns Self exactly when the greens outnumber the neutrals,
\* Partner exactly when the neutrals outnumber the greens, undetermined
\* otherwise; the position tier is used only when the colour tier is
\* undetermined, so a determined colour result is never overridden.
C17_ColourVoteAndTierOrder ==
    box_out.done =>
        LET greens == Cardinality(GreenSamples(box_in.box))
            neutrals == Cardinality(NeutralSamples(box_in.box))
        IN  /\ GreenSamples(box_in.box) \cap NeutralSamples(box_in.box) = {}
            /\ box_out.by_color = Wo <=> greens > neutrals
            /\ box_out.by_color = PartnerLabel(box_in.chat_name) <=> neutrals > greens
            /\ box_out.by_color = <<>> <=> greens = neutrals
            /\ box_out.speaker = (IF greens = neutrals THEN box_out.by_position ELSE box_out.by_color)

C17_Witness ==
    /\ box_out.done /\ box_out.reaches
    /\ \E k \in 1..3 : IsGreen(box_in.box.patches[k]) /\ IsWhite(box_in.box.patches[k])
    /\ box_out.by_color = Wo /\ box_out.by_position = PartnerLabel(box_in.chat_name)
    /\ box_out.speaker = Wo

\* the cropped region and the bounding rectangle of the box share pixels
Overlaps(region, box) ==
    /\ region.x < right_x(box) /\ region.x + region.w > left_x(box)
    /\ region.y < bottom_y(box) /\ region.y + region.h > top_y(box)

\* C18: for every box that reaches the speaker classifier none of the three
\* sampled patches, after clamping to the image, overlaps the box's own
\* bounding rectangle, boxes near the image edges included.
C18_PatchesNeverOverlapTheBox ==
    (box_out.done /\ box_out.reaches) => \A k \in 1..3 : ~Overlaps(box_out.regions[k], box_in.box)

\* the boxes the claim lets stand for the name: vertical centre between 3%
\* and 12% of the height, text no UI chrome and of 1 to 12 characters,
\* horizontal centre within 25% of the width from the centre
ClaimedCandidates(boxes, image_width, image_height) ==
    {k \in 1..Len(boxes) :
        /\ 3 * image_height < 100 * center_y(boxes[k]) /\ 100 * center_y(boxes[k]) < 12 * image_height
        /\ ~IsUiText(Strip(boxes[k].text))
        /\ Len(Strip(boxes[k].text)) >= 1 /\ Len(Strip(boxes[k].text)) <= 12
        /\ 2 * DistanceToCenter(boxes[k], image_width) <= image_width}

\* C19: _extract_chat_name returns the text of the box nearest to the
\* horizontal centre among the boxes in the title band (3% to 12% of the
\* height) that are no UI chrome, hold 1 to 12 characters and are centred
\* within 25% of the width; it returns None exactly when there is no such box.
C19_NameIsNearestCandidateOfTheBand ==
    img_out.done =>
        LET boxes == img_in.image.boxes
            name == ExtractChatName(boxes, img_in.image.width, img_in.image.height)
            claimed == ClaimedCandidates(boxes, img_in.image.width, img_in.image.height)
        IN  /\ name = None <=> claimed = {}
            /\ name # None => \E k \in claimed :
                  /\ name = Some(Strip(boxes[k].text))
                  /\ \A j \in claimed : DistanceToCenter(boxes[k], img_in.image.width) <= DistanceToCenter(boxes[j], img_in.image.width)

\* C20: the partner name is only taken from a box that survived the noise
\* filter: a box in the status-bar band, in the compose-bar band or with a
\* timestamp text is never returned as the partner name.
C20_NameComesFromAFilteredBox ==
    img_out.done =>
        LET boxes == img_in.image.boxes
            name == ExtractChatName(boxes, img_in.image.width, img_in.image.height)
        IN  name # None => \E k \in 1..Len(boxes) :
                /\ Strip(boxes[k].text) = name.val
                /\ ~IsNoise(boxes[k], img_in.image.height)

\* C21: once a partner name has been resolved from an image of the batch,
\* the Partner messages of that image and of every later image carry that
\* name, even when a later image's own title yields another name.
C21_LaterImagesKeepTheResolvedName ==
    \A k \in 1..Len(image_results) :
        LET resolved == FirstName(SubSeq(images, 1, image_results[k].image_index + 1))
        IN  Truthy(resolved) => \A j \in 1..Len(image_results[k].messages) :
                image_results[k].messages[j].speaker \in {Wo, resolved.val}

\* the detection has a text and a geometry
IsUsable(detection) ==
    /\ Truthy(detection.DetectedText) /\ Strip(detection.DetectedText.val) # <<>>
    /\ detection.Polygon # <<>> \/ detection.ItemPolygon.some
\* the TextBox the claim expects of a usable detection: a missing confidence is 0
ExpectedBox(detection) ==
    [text |-> Strip(detection.DetectedText.val),
     box |-> IF detection.Polygon # <<>> THEN detection.Polygon
             ELSE Rect(detection.ItemPolygon.X, detection.ItemPolygon.Y,
                       detection.ItemPolygon.X + detection.ItemPolygon.Width, detection.ItemPolygon.Y + detection.ItemPolygon.Height),
     confidence |-> IF detection.Confidence.some THEN detection.Confidence.val ELSE 0]

\* C22: parsing is never aborted by one bad entry: a detection with empty
\* or blank text or without geometry is skipped, one without confidence
\* yields a TextBox with confidence 0, and every other detection is
\* returned, in the engine's order.
C22_BadDetectionNeverAbortsParsing ==
    parsed.done =>
        LET usable == SelectSeq(detections, IsUsable)
        IN  /\ ~parsed.raised
            /\ parsed.boxes = [k \in 1..Len(usable) |-> ExpectedBox(usable[k])]

\* both sides of the upload are within max_side
WithinMaxSide == shot.width <= MaxSide /\ shot.height <= MaxSide

\* C23: an image with both sides at most max_side is passed on unchanged
\* with unscaled coordinates; any other image is resized so that its
\* longer side becomes max_side and its shorter side, at least 1 px, is
\* scaled by the same ratio (to within a pixel); every detected coordinate
\* is multiplied by original / resized of its axis and lies within the
\* original image.
C23_ResizeToMaxSideAndMapBack ==
    resized.done =>
        /\ ~resized.raised
        /\ WithinMaxSide =>
              /\ resized.width = shot.width /\ resized.height = shot.height
              /\ resized.mapped = <<Fraction(resized.detected[1], 1), Fraction(resized.detected[2], 1)>>
        /\ ~WithinMaxSide =>
              LET L == Max2(shot.width, shot.height)
                  S == Min2(shot.width, shot.height)
                  short == Min2(resized.width, resized.height)
              IN  /\ Max2(resized.width, resized.height) = MaxSide
                  /\ short >= 1
                  /\ Abs(short * L - MaxSide * S) < L
                  /\ resized.mapped = <<Fraction(resized.detected[1] * shot.width, resized.width),
                                        Fraction(resized.detected[2] * shot.height, resized.height)>>
        /\ resized.mapped[1].num >= 0 /\ resized.mapped[1].num <= shot.width * resized.mapped[1].den
        /\ resized.mapped[2].num >= 0 /\ resized.mapped[2].num <= shot.height * resized.mapped[2].den

\* every image of the request has been processed or skipped: the loop is
\* over and each image that process_image returns has its result
AllImagesHandled ==
    /\ i = Len(images)
    /\ Len(image_results) = Len(SelectSeq(images, ProcessImageReturns))

\* C24: the refinement collaborator is invoked only after every image has
\* been processed or skipped, at most once per request, never when
\* use_llm_refine is false or no image produced a result; and nothing is
\* returned before all images have been handled.
C24_RefinementOnlyAtTheJoinPoint ==
    [][/\ llm' # llm => /\ llm = NoReply
                        /\ AllImagesHandled
                        /\ use_llm_refine
                        /\ image_results # <<>>
       /\ (pc' = "returned" /\ pc # "returned") => AllImagesHandled]_vars
C24_Witness ==
    /\ pc = "responded" /\ llm # NoReply
    /\ Len(images) = 2 /\ ~ProcessImageReturns(images[1]) /\ ProcessImageReturns(images[2])

\* C25: the offset constant exceeds every vertical key an accepted image
\* can produce: once the offsets are added, each message of a later image
\* lies at least the merge threshold below every message of an earlier one.
C25_OffsetExceedsEveryVerticalKey ==
    (pc \in {"returned", "responded"} /\ merged_messages # <<>>) =>
        \A a, b \in 1..Len(image_results) : a < b =>
            \A ja \in 1..Len(image_results[a].messages), jb \in 1..Len(image_results[b].messages) :
                image_results[b].messages[jb].y_position - image_results[a].messages[ja].y_position >= MergeThreshold

\* a call as the claim describes it: no more than 3 attempts; only an
\* attempt that timed out or met a 429 is followed by another; the call
\* returns on a 200, fails at once on any other error, and fails on a
\* timeout or a 429 only when that was the third attempt
CallAsClaimed(call) ==
    LET n == Len(call.attempts)
    IN  /\ n <= MaxAttempts
        /\ \A k \in 1..(n - 1) : call.attempts[k] \in {"timeout", "429"}
        /\ call.result = "" => \A k \in 1..n : call.attempts[k] \in {"timeout", "429"}
        /\ call.result = "returned" => n >= 1 /\ call.attempts[n] = "200"
        /\ call.result \notin {"", "returned"} =>
              /\ n >= 1
              /\ call.attempts[n] # "200"
              /\ call.attempts[n] \in {"timeout", "429"} => n = MaxAttempts

\* C26: _call_api retries timeouts and 429s: such an attempt is followed by
\* another until one succeeds or 3 attempts have been made; any other
\* error fails the call after that single attempt; no call makes more than
\* 3 attempts.
C26_TimeoutsAndRateLimitsAreRetried ==
    /\ CallAsClaimed([attempts |-> attempts, result |-> call_result])
    /\ \A k \in 1..Len(history) : CallAsClaimed(history[k])

\* the box spans the screen: left edge below 25%, right edge above 75%
SpansScreen(box, image_width) == 100 * left_x(box) < 25 * image_width /\ 100 * right_x(box) > 75 * image_width

\* C27 as claimed: a box that spans the screen is attributed to neither
\* speaker by the position tier.
C27_SpanningBoxIsUndeterminedAsClaimed ==
    (box_out.done /\ SpansScreen(box_in.box, box_in.width)) => box_out.by_position = <<>>

\* C27: a box that spans the screen is attributed by the position tier to
\* Partner when its left edge is below 20% of the width and to neither
\* speaker otherwise, never to Self; unless the colour tier decided, the
\* pipeline takes that over.
C27_SpanningBoxGoesByItsLeftEdge ==
    (box_out.done /\ SpansScreen(box_in.box, box_in.width)) =>
        /\ box_out.by_position = IF 100 * left_x(box_in.box) < 20 * box_in.width THEN PartnerLabel(box_in.chat_name) ELSE <<>>
        /\ box_out.by_color = <<>> => box_out.speaker = box_out.by_position
C27_Witness ==
    /\ box_out.done /\ box_out.reaches /\ SpansScreen(box_in.box, box_in.width)
    /\ box_out.by_color = <<>> /\ box_out.speaker = PartnerLabel(box_in.chat_name)

\* a run: the messages, top to bottom, are of one speaker and each lies
\* less than the threshold below the one before it
IsRun(sorted) ==
    \A k \in 1..(Len(sorted) - 1) :
        /\ sorted[k + 1].speaker = sorted[k].speaker
        /\ sorted[k + 1].y_position - sorted[k].y_position < MergeThreshold

\* C28: the gap is measured to the box just before, not to the first box
\* of the message: a run of same-speaker boxes, each less than the
\* threshold below its predecessor, becomes one message however far the
\* run extends, and that message keeps the y_position of its first box.
C28_RunIsFusedWhateverItsSpan ==
    (mrg_out.done /\ mrg_in # <<>> /\ IsRun(SortByY(mrg_in))) =>
        mrg_out.messages = <<ChatMessage(SortByY(mrg_in)[1].speaker, ConcatTexts(SortByY(mrg_in)), SortByY(mrg_in)[1].y_position)>>
C28_Witness ==
    /\ mrg_out.done /\ Len(mrg_in) = 3 /\ IsRun(SortByY(mrg_in))
    /\ SortByY(mrg_in)[3].y_position - SortByY(mrg_in)[1].y_position >= MergeThreshold
    /\ Len(mrg_out.messages) = 1 /\ mrg_out.messages[1].y_position = SortByY(mrg_in)[1].y_position

\* the box has left a message in the result of its image
BecameMessage(box) ==
    \E j \in 1..Len(img_out.result.messages) :
        /\ img_out.result.messages[j].text = Strip(box.text)
        /\ img_out.result.messages[j].y_position = center_y(box)

\* the name the loop body works with: that of the image, else the batch's
CurrentChatName == OrElse(NameOf(img_in.image), img_in.detected)

\* C29: the title box an image's name was extracted from never becomes a
\* message of that image: every box whose stripped text is the current
\* partner name and whose centre is in the top 15% of the image is left
\* out of the messages, whatever its colour and position.
C29_TitleBoxIsNeverAMessage ==
    img_out.done =>
        \A k \in 1..Len(img_in.image.boxes) :
            LET box == img_in.image.boxes[k]
            IN  /\ (Truthy(CurrentChatName) /\ Strip(box.text) = CurrentChatName.val /\ 100 * center_y(box) < 15 * img_in.image.height)
                      => ~BecameMessage(box)
                /\ (Truthy(NameOf(img_in.image)) /\ Strip(box.text) = NameOf(img_in.image).val /\ InRelaxedBand(box, img_in.image.height))
                      => ~BecameMessage(box)
C29_Witness ==
    /\ img_out.done /\ img_out.result.messages # <<>>
    /\ NameOf(img_in.image) = Some(Strip(BoxTitleLow.text))
    /\ \E k \in 1..Len(img_in.image.boxes) : img_in.image.boxes[k] = BoxTitleLow
    /\ ~IsNoise(BoxTitleLow, img_in.image.height) /\ WhiteBubble(BoxTitleLow)

\* C30: under any interleaving of requests that check and, if allowed,
\* later increment, the stored used count never exceeds the limit; a check
\* reports allowed exactly when used < limit, with remaining =
\* max(0, limit - used).
C30_UsedNeverExceedsLimit ==
    /\ usage_doc.used <= usage_doc.limit
    /\ \A r \in DOMAIN requests : requests[r].pc # "start" =>
          /\ requests[r].check.allowed = (requests[r].check.used < requests[r].check.limit)
          /\ requests[r].check.remaining = Max2(0, requests[r].check.limit - requests[r].check.used)

=============================================================================
